---- MODULE Spec2Model ----
(***************************************************************************)
(* The supervisor-driven dialogue engine of flow-state:                    *)
(*   src/ai_talker_functions_multi_v3.py  (run_conversation, supervisor,   *)
(*                                         call_gpt_api, main_multi)       *)
(*   src/chat_interface.py                (chat_interface)                 *)
(*   src/api_multi_v3.py                  (handle_conversation)            *)
(* One dialogue is one coroutine.  It suspends at `await call_gpt_api` and *)
(* at `input()`; every action below is the code run between two of these   *)
(* suspension points.  The language-model service is the environment: it   *)
(* answers the request in flight with a 200 body, a non-200 status or a    *)
(* transport exception.  Text is a sequence of one-character strings.      *)
(***************************************************************************)
EXTENDS Integers, Sequences, FiniteSets, TLC

\* ---------------------------------------------------------------- bounds
\* Longest caller-supplied step list.
MaxSeq == 3
\* Longest transcript explored (two full iterations of the loop).
MaxTurns == 4

\* ------------------------------------------------------------------ text
LowerCase ==
    <<"a", "b", "c", "d", "e", "f", "g", "h", "i", "j", "k", "l", "m", "n",
       "o", "p", "q", "r", "s", "t", "u", "v", "w", "x", "y", "z">>

UpperCase ==
    <<"A", "B", "C", "D", "E", "F", "G", "H", "I", "J", "K", "L", "M", "N",
       "O", "P", "Q", "R", "S", "T", "U", "V", "W", "X", "Y", "Z">>

DigitChars ==
    <<"0", "1", "2", "3", "4", "5", "6", "7", "8", "9">>

NotConfiguredText ==
    <<"A", "I", ":", " ", "E", "r", "r", "o", "r", ":", " ", "G", "P", "T",
       "4", "_", "A", "P", "I", "_", "K", "E", "Y", " ", "o", "r", " ", "G",
       "P", "T", "4", "_", "E", "N", "D", "P", "O", "I", "N", "T", " ", "n",
       "o", "t", " ", "f", "o", "u", "n", "d", " ", "i", "n", " ", "e", "n",
       "v", "i", "r", "o", "n", "m", "e", "n", "t", " ", "v", "a", "r", "i",
       "a", "b", "l", "e", "s", ".">>

StatusErrorHead ==
    <<"A", "I", ":", " ", "I", " ", "a", "p", "o", "l", "o", "g", "i", "z",
       "e", ",", " ", "b", "u", "t", " ", "I", " ", "e", "n", "c", "o", "u",
       "n", "t", "e", "r", "e", "d", " ", "a", "n", " ", "e", "r", "r", "o",
       "r", ".", " ", "S", "t", "a", "t", "u", "s", " ", "c", "o", "d", "e",
       ":", " ">>

StatusErrorMid ==
    <<".", " ", "E", "r", "r", "o", "r", ":", " ">>

ExceptionErrorHead ==
    <<"A", "I", ":", " ", "I", " ", "a", "p", "o", "l", "o", "g", "i", "z",
       "e", ",", " ", "b", "u", "t", " ", "I", " ", "e", "n", "c", "o", "u",
       "n", "t", "e", "r", "e", "d", " ", "a", "n", " ", "e", "r", "r", "o",
       "r", ":", " ">>

\* str.isspace() for the characters that occur in the model's texts.
Whitespace == {" ", "\n", "\t", "\r"}

\* Python None (a step that is None, a field that is None).
None == "None"

\* The case mappings of str.upper() and str.lower() on ASCII letters.
UpperTable ==
    [c \in {LowerCase[i] : i \in 1..Len(LowerCase)} |->
        UpperCase[CHOOSE i \in 1..Len(LowerCase) : LowerCase[i] = c]]

LowerTable ==
    [c \in {UpperCase[i] : i \in 1..Len(UpperCase)} |->
        LowerCase[CHOOSE i \in 1..Len(UpperCase) : UpperCase[i] = c]]

\* str.upper()
Upper(s) ==
    [i \in 1..Len(s) |->
        IF s[i] \in DOMAIN UpperTable THEN UpperTable[s[i]] ELSE s[i]]

\* str.lower()
Lower(s) ==
    [i \in 1..Len(s) |->
        IF s[i] \in DOMAIN LowerTable THEN LowerTable[s[i]] ELSE s[i]]

\* str.strip(): s without its leading and trailing whitespace.
Strip(s) ==
    LET kept == {i \in 1..Len(s) : s[i] \notin Whitespace}
    IN  IF kept = {} THEN <<>>
        ELSE SubSeq(s, CHOOSE i \in kept : \A j \in kept : i <= j,
                       CHOOSE i \in kept : \A j \in kept : j <= i)

RECURSIVE IntToStr(_)
\* str(n) for n >= 0, as the f-string formats response.status.
IntToStr(n) ==
    IF n < 10 THEN <<DigitChars[n + 1]>>
    ELSE IntToStr(n \div 10) \o <<DigitChars[(n % 10) + 1]>>

\* s[:n]: the oldest n elements.
LastN_Oldest(s, n) == IF Len(s) <= n THEN s ELSE SubSeq(s, 1, n)

\* s[:]: the whole list.
LastN_Whole(s, n) == s

\* s[-n:]
LastN(s, n) == IF Len(s) <= n THEN s ELSE SubSeq(s, Len(s) - n + 1, Len(s))

\* -------------------------------------------------------------- registry
\* The keys of available_steps.
available_steps ==
    {"GREETING", "NEEDS_ASSESSMENT", "INFO_PROVISION", "TRANSACTION",
     "SUPPORT", "FEEDBACK", "ACCOUNT_MANAGEMENT", "CLOSING",
     "ERROR_HANDLING", "COMMON_STATES"}

\* conversation[-5:]
WindowSize == 5

\* The three callers of the loop.
EntryPoints == {"main_multi", "chat_interface", "handle_conversation"}

\* ------------------------------------------------------ bounded inputs
\* Identifiers a caller may put in a step list: two registered steps and
\* "Connections", which has a template in step_prompts but no entry in
\* available_steps.
RequestIds == {"GREETING", "CLOSING", "Connections"}

RECURSIVE SeqsUpTo(_, _)
SeqsUpTo(S, n) ==
    IF n = 0 THEN {<<>>}
    ELSE LET shorter == SeqsUpTo(S, n - 1)
         IN  shorter \cup {Append(s, x) : s \in {t \in shorter : Len(t) = n - 1}, x \in S}

Requests == SeqsUpTo(RequestIds, MaxSeq)

TextHi == <<"H", "i">>
TextDown == <<"d", "o", "w", "n">>
TextTimeout == <<"t", "i", "m", "e", "o", "u", "t">>

\* What the service may do with a request: a 200 with a body, another
\* status with an error text, or an exception raised by the transport.
Ok(body) == [kind |-> "ok", status |-> 200, text |-> body]
HttpError == [kind |-> "http_error", status |-> 500, text |-> TextDown]
TransportException == [kind |-> "exception", status |-> 0, text |-> TextTimeout]
NotConfigured == [kind |-> "not_configured", status |-> 0, text |-> <<>>]
NoResponse == [kind |-> "none", status |-> 0, text |-> <<>>]

AssistantOutcomes == {Ok(TextHi), HttpError, TransportException}

SupervisorBodies ==
    { <<"S", "T", "A", "Y">>,
      <<" ", "s", "t", "a", "y", "\n">>,
      <<"S", "T", "A", "Y", ".">>,
      <<"\"", "S", "T", "A", "Y", "\"">>,
      <<"C", "O", "M", "P", "L", "E", "T", "E">>,
      <<" ", "C", "o", "m", "p", "l", "e", "t", "e">>,
      <<"C", "L", "O", "S", "I", "N", "G">> }

SupervisorOutcomes ==
    {Ok(b) : b \in SupervisorBodies} \cup {HttpError, TransportException}

UserInputs == { <<"h", "i">>, <<"e", "x", "i", "t">>, <<>> }

\* ---------------------------------------------------------- field source
\* The fields fetched at import for the steps the explored step lists can
\* name, in the order they are fetched.
FieldNames == <<"GREETING", "CLOSING", "Connections">>

\* A field's value: a text, or Python None.
FieldText(text) == [is_none |-> FALSE, text |-> text]
FieldNone == [is_none |-> TRUE, text |-> <<>>]

TextName == <<"n", "a", "m", "e">>

\* What table.scan does for one fetch: it returns items whose first one
\* holds the field, or lacks it, or returns no items; or it raises
\* ClientError (the service answered with an error); or the request never
\* got an answer and botocore raises an exception that is not a ClientError.
ScanItems(value) == [kind |-> "items", value |-> value]
ScanNoItems == [kind |-> "no_items", value |-> FieldNone]
ScanClientError == [kind |-> "client_error", value |-> FieldNone]
ScanTransportError == [kind |-> "transport_error", value |-> FieldNone]

ScanOutcomes ==
    {ScanItems(FieldText(TextName)), ScanItems(FieldNone), ScanNoItems,
     ScanClientError, ScanTransportError}

\* The exception of a scan that `except ClientError` does not catch.
Escapes(scan) == scan.kind = "transport_error"

\* The value get_prompt_from_dynamodb returns when it returns.
get_prompt_from_dynamodb(scan) ==
    IF scan.kind = "items" THEN scan.value ELSE FieldNone

\* f"{value}": str(value)
format_field(value) ==
    IF value.is_none THEN <<"N", "o", "n", "e">> ELSE value.text

\* ----------------------------------------------------------------- state
VARIABLES
    entry,                  \* which caller runs the dialogue
    request,                \* the step list of the pending invocation
    connection,             \* chat_interface: what the 'connection' field holds
    gpt_env_missing,        \* GPT4_API_KEY or GPT4_ENDPOINT is not set
    conversation_sequence,  \* the resolved steps (a step is its identifier)
    current_step,           \* the loop's cursor: a step, or None
    conversation,           \* the transcript
    pc,                     \* where the coroutine is suspended
    messages,               \* the messages of the call_gpt_api call in progress
    response,               \* that call's outcome, until its caller resumes
    saved,                  \* what save_to_json was given
    result,                 \* how the invocation ended
    model_calls,            \* history: calls of call_gpt_api so far
    pos,                    \* history: 1 + the number of advance decisions
    table_scan,             \* what table.scan does for each field at import
    prompt_fields,          \* the module's *_prompt globals
    dialogues               \* two invocations at once: each one's locals

vars ==
    <<entry, request, connection, gpt_env_missing, conversation_sequence,
      current_step, conversation, pc, messages, response, saved, result,
      model_calls, pos, table_scan, prompt_fields, dialogues>>

\* step_prompts[id]: the template of key id with the text the f-string put
\* in the place of its placeholder (the literal text around it is fixed by
\* the key).
step_prompts(id) ==
    [template |-> id, inserted |-> format_field(prompt_fields[id])]

\* ---------------------------------------------------------- call_gpt_api
\* call_gpt_api without its error formatting: whatever text came back is
\* returned as it is.
call_gpt_api_Unformatted(r) == r.text

\* The string call_gpt_api returns for what the service did.
call_gpt_api(r) ==
    CASE r.kind = "not_configured" -> NotConfiguredText
      [] r.kind = "ok" -> r.text
      [] r.kind = "http_error" ->
            StatusErrorHead \o IntToStr(r.status) \o StatusErrorMid \o r.text
      [] r.kind = "exception" -> ExceptionErrorHead \o r.text

\* `await call_gpt_api(m)` is entered with the messages m.
PostRequest(m) ==
    /\ model_calls' = model_calls + 1
    /\ messages' = m
    /\ response' = NoResponse

\* ------------------------------------------------------------ supervisor
\* list.index(x), 0-based: the first place x occurs at.
ListIndex(seq, x) ==
    (CHOOSE i \in 1..Len(seq) :
        seq[i] = x /\ \A j \in 1..(i - 1) : seq[j] # x) - 1

\* The decision read without .strip().
supervisor_decision_Unstripped(supervisor_response) ==
    Upper(supervisor_response)

\* supervisor_decision = supervisor_response.strip().upper()
supervisor_decision(supervisor_response) == Upper(Strip(supervisor_response))

\* The two literal decisions supervisor() compares with.
STAY == <<"S", "T", "A", "Y">>

COMPLETE == <<"C", "O", "M", "P", "L", "E", "T", "E">>

\* supervisor() without its COMPLETE branch: COMPLETE advances like any
\* other reply that is not STAY.
supervisor_NoCompleteBranch(supervisor_response, step, sequence) ==
    LET decision == supervisor_decision(supervisor_response)
    IN  IF decision = STAY THEN step
        ELSE LET next_step_index == ListIndex(sequence, step) + 1
             IN  IF next_step_index < Len(sequence)
                 THEN sequence[next_step_index + 1]
                 ELSE None

\* The step supervisor() returns, given the text call_gpt_api returned.
supervisor(supervisor_response, step, sequence) ==
    LET decision == supervisor_decision(supervisor_response)
    IN  IF decision = STAY THEN step
        ELSE IF decision = COMPLETE THEN None
        ELSE LET next_step_index == ListIndex(sequence, step) + 1
             IN  IF next_step_index < Len(sequence)
                 THEN sequence[next_step_index + 1]
                 ELSE None

\* The supervisor's request built from the transcript as it was before the
\* user's turn was appended.
SupervisorMessages_BeforeUserTurn(conv, step) ==
    << [role |-> "system",
        content |-> [supervisor_for |-> step,
                     requirements |-> step_prompts(step),
                     history |-> LastN(SubSeq(conv, 1, Len(conv) - 1),
                                       WindowSize)]] >>

\* The single system message of the supervisor's request.
SupervisorMessages(conv, step) ==
    << [role |-> "system",
        content |-> [supervisor_for |-> step,
                     requirements |-> step_prompts(step),
                     history |-> LastN(conv, WindowSize)]] >>

\* ------------------------------------------------------------- the loop
\* messages of one iteration: the step's template, then the last 5 turns.
AssistantMessages(conv, step) ==
    << [role |-> "system", content |-> step_prompts(step)] >>
    \o [i \in 1..Len(LastN(conv, WindowSize)) |->
          [role |-> IF LastN(conv, WindowSize)[i].role = "AI"
                    THEN "assistant" ELSE "user",
           content |-> LastN(conv, WindowSize)[i].content]]

\* A list that takes each new turn at its front (list.insert(0, turn)).
AppendTurn_AtFront(conv, turn) == <<turn>> \o conv

\* An append that leaves out a turn whose content is empty.
AppendTurn_SkipsEmpty(conv, turn) ==
    IF turn.content = <<>> THEN conv ELSE Append(conv, turn)

\* conversation.append(turn)
AppendTurn(conv, turn) == Append(conv, turn)

\* [available_steps[step] for step in sequence if step in available_steps]
KnownSteps(req) == SelectSeq(req, LAMBDA s : s \in available_steps)

\* The caller saves the transcript without its last turn.
Halt_DropsLast(conv) ==
    /\ saved' = SubSeq(conv, 1, Len(conv) - 1)
    /\ result' = "saved"
    /\ pc' = "done"
    /\ messages' = <<>>
    /\ response' = NoResponse
    /\ UNCHANGED model_calls

\* The loop is left: the caller saves the transcript and returns.
Halt(conv) ==
    /\ saved' = conv
    /\ result' = "saved"
    /\ pc' = "done"
    /\ messages' = <<>>
    /\ response' = NoResponse
    /\ UNCHANGED model_calls

\* The entry point's arguments are read once, while the step list is
\* resolved; request and connection hold them until then.
\* The invocation ends before any dialogue: how is "reported_error" (a
\* printed error and a return) or the name of the exception that escapes.
EndWithout(how) ==
    /\ result' = how
    /\ pc' = "done"
    /\ request' = <<>>
    /\ connection' = "unused"
    /\ UNCHANGED <<conversation_sequence, current_step, conversation,
                   messages, response, saved, model_calls, pos>>

\* The loop started at the last step of the sequence (sequence[-1]).
StartLoop_AtLastStep(steps) ==
    /\ conversation_sequence' = steps
    /\ current_step' = steps[Len(steps)]
    /\ pos' = 1
    /\ conversation' = <<>>
    /\ PostRequest(AssistantMessages(<<>>, steps[Len(steps)]))
    /\ pc' = "await_ai"
    /\ request' = <<>>
    /\ connection' = "unused"
    /\ UNCHANGED <<saved, result>>

\* conversation = []; current_step = sequence[0]; the first iteration up
\* to its model call.
StartLoop(steps) ==
    /\ conversation_sequence' = steps
    /\ current_step' = steps[1]
    /\ pos' = 1
    /\ conversation' = <<>>
    /\ PostRequest(AssistantMessages(<<>>, steps[1]))
    /\ pc' = "await_ai"
    /\ request' = <<>>
    /\ connection' = "unused"
    /\ UNCHANGED <<saved, result>>

\* A field source that holds a text for every field.
Imported ==
    [f \in {FieldNames[i] : i \in 1..Len(FieldNames)} |->
        ScanItems(FieldText(TextName))]

Init ==
    /\ entry \in EntryPoints
    /\ request \in Requests
    /\ connection \in
          IF entry = "chat_interface" THEN {"none", "malformed", "steps"}
          ELSE {"unused"}
    /\ connection \in {"none", "malformed"} => request = <<>>
    /\ gpt_env_missing \in BOOLEAN
    /\ conversation_sequence = <<>>
    /\ current_step = None
    /\ conversation = <<>>
    /\ pc = "start"
    /\ messages = <<>>
    /\ response = NoResponse
    /\ saved = <<>>
    /\ result = "running"
    /\ model_calls = 0
    /\ pos = 0
    /\ table_scan = Imported
    /\ prompt_fields = [f \in DOMAIN Imported |->
                          get_prompt_from_dynamodb(Imported[f])]
    /\ dialogues = <<>>

\* main_multi(conversation_sequence), up to the first model call.
main_multi ==
    /\ pc = "start" /\ entry = "main_multi"
    /\ IF KnownSteps(request) = <<>>
       THEN EndWithout("reported_error")
       ELSE StartLoop(KnownSteps(request))
    /\ UNCHANGED <<entry, gpt_env_missing, table_scan, prompt_fields,
                   dialogues>>

\* chat_interface(), up to the first model call.
chat_interface ==
    /\ pc = "start" /\ entry = "chat_interface"
    /\ IF connection = "transport_error"
       THEN EndWithout("EndpointConnectionError")
       ELSE IF connection # "steps" \/ KnownSteps(request) = <<>>
       THEN EndWithout("reported_error")
       ELSE StartLoop(KnownSteps(request))
    /\ UNCHANGED <<entry, gpt_env_missing, table_scan, prompt_fields,
                   dialogues>>

\* handle_conversation(request), up to the first model call.
handle_conversation ==
    /\ pc = "start" /\ entry = "handle_conversation"
    /\ IF \E i \in 1..Len(request) : request[i] \notin available_steps
       THEN EndWithout("KeyError")
       ELSE IF request = <<>>
       THEN EndWithout("IndexError")
       ELSE StartLoop(request)
    /\ UNCHANGED <<entry, gpt_env_missing, table_scan, prompt_fields,
                   dialogues>>

\* What call_gpt_api meets: without the two environment variables it
\* posts nothing; else the service answers the posted request.
Outcomes(at) ==
    IF gpt_env_missing THEN {NotConfigured}
    ELSE IF at = "await_ai" THEN AssistantOutcomes
    ELSE SupervisorOutcomes

\* call_gpt_api runs up to its return: the call in progress gets one of
\* the given outcomes.
call_gpt_api_Returns(outcomes) ==
    /\ pc \in {"await_ai", "await_supervisor"}
    /\ messages # <<>>
    /\ \E o \in outcomes : response' = o
    /\ messages' = <<>>
    /\ UNCHANGED <<entry, request, connection, gpt_env_missing,
                   table_scan, prompt_fields, dialogues,
                   conversation_sequence, current_step, conversation, pc,
                   saved, result, model_calls, pos>>

GatewayRespond == call_gpt_api_Returns(Outcomes(pc))

\* The assistant's reply is appended and the supervisor is called at once,
\* without reading the user's input.
AssistantReturn_NoInput ==
    /\ pc = "await_ai"
    /\ response.kind # "none"
    /\ Len(conversation) < MaxTurns
    /\ conversation' =
          AppendTurn(conversation,
                     [role |-> "AI", content |-> call_gpt_api(response)])
    /\ PostRequest(SupervisorMessages(conversation', current_step))
    /\ pc' = "await_supervisor"
    /\ UNCHANGED <<entry, request, connection, gpt_env_missing,
                   table_scan, prompt_fields, dialogues,
                   conversation_sequence, current_step, saved, result, pos>>

\* ai_response = await call_gpt_api(messages); the AI turn is appended
\* and input() is called.  Transcripts are explored up to limit turns.
AppendAI(limit) ==
    /\ pc = "await_ai"
    /\ response.kind # "none"
    /\ Len(conversation) < limit
    /\ conversation' =
          AppendTurn(conversation,
                     [role |-> "AI", content |-> call_gpt_api(response)])
    /\ response' = NoResponse
    /\ pc' = "await_input"
    /\ UNCHANGED <<entry, request, connection, gpt_env_missing,
                   table_scan, prompt_fields, dialogues,
                   conversation_sequence, current_step, messages, saved,
                   result, model_calls, pos>>

AssistantReturn == AppendAI(MaxTurns)

\* chat_interface: user_input.lower() in ['exit', 'quit', 'bye']
ExitWords ==
    { <<"e", "x", "i", "t">>, <<"q", "u", "i", "t">>, <<"b", "y", "e">> }

IsExit(user_input) == Lower(user_input) \in ExitWords

\* Whether the loop of this entry point breaks on user_input.
BreaksOn(e, user_input) == e = "chat_interface" /\ IsExit(user_input)

\* input() returns one of the given inputs: the User turn is appended and,
\* unless the loop breaks, the supervisor's request is posted.
AppendUser(inputs, limit) ==
    /\ pc = "await_input"
    /\ Len(conversation) < limit
    /\ \E user_input \in inputs :
          LET conv == AppendTurn(conversation,
                                 [role |-> "User", content |-> user_input])
          IN  /\ conversation' = conv
              /\ IF BreaksOn(entry, user_input)
                 THEN Halt(conv)
                 ELSE /\ PostRequest(SupervisorMessages(conv, current_step))
                      /\ pc' = "await_supervisor"
                      /\ UNCHANGED <<saved, result>>
    /\ UNCHANGED <<entry, request, connection, gpt_env_missing,
                   table_scan, prompt_fields, dialogues,
                   conversation_sequence, current_step, pos>>

UserInput == AppendUser(UserInputs, MaxTurns)

\* The supervisor's step with its reply appended to the transcript as a
\* turn of its own.
SupervisorReturn_LogsDecision ==
    /\ pc = "await_supervisor"
    /\ response.kind # "none"
    /\ LET supervisor_response == call_gpt_api(response)
           next_step == supervisor(supervisor_response, current_step,
                                   conversation_sequence)
           conv == AppendTurn(conversation,
                              [role |-> "AI", content |-> supervisor_response])
       IN  /\ current_step' = next_step
           /\ conversation' = conv
           /\ pos' = IF supervisor_decision(supervisor_response)
                        \in {STAY, COMPLETE}
                     THEN pos ELSE pos + 1
           /\ IF next_step = None
              THEN Halt(conv)
              ELSE /\ PostRequest(AssistantMessages(conv, next_step))
                   /\ pc' = "await_ai"
                   /\ UNCHANGED <<saved, result>>
    /\ UNCHANGED <<entry, request, connection, gpt_env_missing,
                   table_scan, prompt_fields, dialogues,
                   conversation_sequence>>

\* supervisor() gets the service's answer and returns; the loop assigns
\* current_step, tests it and either runs the next iteration up to its
\* model call or returns the transcript.
SupervisorReturn ==
    /\ pc = "await_supervisor"
    /\ response.kind # "none"
    /\ LET supervisor_response == call_gpt_api(response)
           next_step == supervisor(supervisor_response, current_step,
                                   conversation_sequence)
       IN  /\ current_step' = next_step
           /\ pos' = IF supervisor_decision(supervisor_response)
                        \in {STAY, COMPLETE}
                     THEN pos ELSE pos + 1
           /\ IF next_step = None
              THEN Halt(conversation)
              ELSE /\ PostRequest(AssistantMessages(conversation, next_step))
                   /\ pc' = "await_ai"
                   /\ UNCHANGED <<saved, result>>
    /\ UNCHANGED <<entry, request, connection, gpt_env_missing,
                   table_scan, prompt_fields, dialogues,
                   conversation_sequence, conversation>>

Next ==
    \/ main_multi
    \/ chat_interface
    \/ handle_conversation
    \/ GatewayRespond
    \/ AssistantReturn
    \/ UserInput
    \/ SupervisorReturn

Spec == Init /\ [][Next]_vars

\* ------------------------------------------------------- a long dialogue
\* The same loop followed for more turns than conversation[-5:] holds, with
\* a service that always answers: the assistant with a text, the
\* supervisor with STAY or with a step's name.
\* Longest transcript explored in the long dialogue.
LongTurns == 6

LongRequests ==
    { <<"GREETING">>, <<"GREETING", "CLOSING">>,
      <<"GREETING", "CLOSING", "GREETING">> }

\* Inputs of the long dialogue: a word, a text with a quote, a backslash
\* and a newline, and a word chat_interface breaks on.
LongInputs == { <<"h", "i">>, <<"\"", "\\", "\n">>, <<"b", "y", "e">> }

LongOutcomes ==
    IF pc = "await_ai" THEN {Ok(TextHi)}
    ELSE {Ok(STAY), Ok(<<"C", "L", "O", "S", "I", "N", "G">>)}

InitLong ==
    /\ entry \in EntryPoints
    /\ request \in LongRequests
    /\ connection = IF entry = "chat_interface" THEN "steps" ELSE "unused"
    /\ gpt_env_missing = FALSE
    /\ conversation_sequence = <<>>
    /\ current_step = None
    /\ conversation = <<>>
    /\ pc = "start"
    /\ messages = <<>>
    /\ response = NoResponse
    /\ saved = <<>>
    /\ result = "running"
    /\ model_calls = 0
    /\ pos = 0
    /\ table_scan = Imported
    /\ prompt_fields = [f \in DOMAIN Imported |->
                          get_prompt_from_dynamodb(Imported[f])]
    /\ dialogues = <<>>

LongGatewayRespond == call_gpt_api_Returns(LongOutcomes)

LongAssistantReturn == AppendAI(LongTurns)

LongUserInput == AppendUser(LongInputs, LongTurns)

NextLong ==
    \/ main_multi
    \/ chat_interface
    \/ handle_conversation
    \/ LongGatewayRespond
    \/ LongAssistantReturn
    \/ LongUserInput
    \/ SupervisorReturn

SpecLong == InitLong /\ [][NextLong]_vars

\* ------------------------------------------------------------ the import
\* The module is imported, which fetches the fields and builds
\* step_prompts, and then a caller runs a short dialogue.
\* Longest transcript explored after an import.
ImportTurns == 2

InitImport ==
    /\ entry \in EntryPoints
    /\ request \in LongRequests \cup {<<>>}
    /\ connection \in
          IF entry = "chat_interface"
          THEN {"steps", "none", "client_error", "transport_error",
                "malformed"}
          ELSE {"unused"}
    /\ (request = <<>>) <=> (connection \notin {"steps", "unused"})
    /\ gpt_env_missing = FALSE
    /\ conversation_sequence = <<>>
    /\ current_step = None
    /\ conversation = <<>>
    /\ pc = "import"
    /\ messages = <<>>
    /\ response = NoResponse
    /\ saved = <<>>
    /\ result = "running"
    /\ model_calls = 0
    /\ pos = 0
    /\ table_scan \in [DOMAIN Imported -> ScanOutcomes]
    /\ prompt_fields = [f \in DOMAIN Imported |-> FieldNone]
    /\ dialogues = <<>>

\* import ai_talker_functions_multi_v3: the fields are fetched one after
\* the other and step_prompts is built from them; an exception that
\* get_prompt_from_dynamodb does not catch ends the import, and the program.
import_module ==
    /\ pc = "import"
    /\ IF \E f \in DOMAIN table_scan : Escapes(table_scan[f])
       THEN /\ result' = "EndpointConnectionError"
            /\ pc' = "done"
            /\ UNCHANGED prompt_fields
       ELSE /\ prompt_fields' =
                  [f \in DOMAIN table_scan |->
                      get_prompt_from_dynamodb(table_scan[f])]
            /\ pc' = "start"
            /\ UNCHANGED result
    /\ UNCHANGED <<entry, request, connection, gpt_env_missing,
                   conversation_sequence, current_step, conversation,
                   messages, response, saved, model_calls, pos, table_scan,
                   dialogues>>

ImportAssistantReturn == AppendAI(ImportTurns)

ImportUserInput == AppendUser(LongInputs, ImportTurns)

NextImport ==
    \/ import_module
    \/ main_multi
    \/ chat_interface
    \/ handle_conversation
    \/ LongGatewayRespond
    \/ ImportAssistantReturn
    \/ ImportUserInput
    \/ SupervisorReturn

SpecImport == InitImport /\ [][NextImport]_vars

\* ------------------------------------------------ two dialogues at once
\* Two run_conversation invocations on one event loop.  Each has its own
\* frame of locals; control passes from one to the other only where a
\* coroutine is suspended in `await call_gpt_api`; input() blocks the
\* thread, so while one invocation waits for input the other does not run.
\* So that a turn shows which invocation it belongs to, the service and
\* the user give invocation d texts that end in the digit d.
TwoDialogues == {1, 2}

\* Longest transcript explored for each of the two dialogues.
TwoTurns == 4

TwoReply(d) == Ok(<<"r", DigitChars[d + 1]>>)

TwoInput(d) == <<"u", DigitChars[d + 1]>>

\* The variables of the single dialogue, which stay as they are.
single ==
    <<entry, request, connection, gpt_env_missing, conversation_sequence,
      current_step, conversation, pc, messages, response, saved, result,
      model_calls, pos, table_scan, prompt_fields>>

\* Every local is a module-level object that both invocations use: the
\* other frames see the transcript of the frame that ran.
Resume_SharedTranscript(ds, d, locals) ==
    [e \in DOMAIN ds |->
        IF e = d THEN locals
        ELSE [ds[e] EXCEPT !.conversation = locals.conversation]]

\* Invocation d ran up to its next suspension point and its frame now holds
\* locals; the other frames are not touched.
Resume(ds, d, locals) == [ds EXCEPT ![d] = locals]

\* No other invocation is blocking the thread in input().
MayRun(d) ==
    \A e \in TwoDialogues \ {d} : dialogues[e].pc # "await_input"

InitTwo ==
    /\ entry = "handle_conversation"
    /\ request = <<>>
    /\ connection = "unused"
    /\ gpt_env_missing = FALSE
    /\ conversation_sequence = <<>>
    /\ current_step = None
    /\ conversation = <<>>
    /\ pc = "done"
    /\ messages = <<>>
    /\ response = NoResponse
    /\ saved = <<>>
    /\ result = "running"
    /\ model_calls = 0
    /\ pos = 0
    /\ table_scan = Imported
    /\ prompt_fields = [f \in DOMAIN Imported |->
                          get_prompt_from_dynamodb(Imported[f])]
    /\ dialogues \in
          [TwoDialogues ->
              {[conversation_sequence |-> steps, current_step |-> None,
                conversation |-> <<>>, pc |-> "start", messages |-> <<>>,
                response |-> NoResponse] : steps \in LongRequests}]

\* run_conversation(conversation_sequence) of invocation d, up to its first
\* model call.
TwoStart(d) ==
    LET my == dialogues[d]
    IN  /\ my.pc = "start"
        /\ MayRun(d)
        /\ dialogues' =
              Resume(dialogues, d,
                     [my EXCEPT
                        !.current_step = my.conversation_sequence[1],
                        !.messages =
                           AssistantMessages(<<>>,
                                             my.conversation_sequence[1]),
                        !.pc = "await_ai"])
        /\ UNCHANGED single

\* The call of invocation d gets its outcome.
TwoGatewayRespond(d) ==
    LET my == dialogues[d]
    IN  /\ my.pc \in {"await_ai", "await_supervisor"}
        /\ my.messages # <<>>
        /\ MayRun(d)
        /\ \E o \in IF my.pc = "await_ai" THEN {TwoReply(d)}
                     ELSE {Ok(STAY), Ok(<<"C", "L", "O", "S", "I", "N", "G">>)} :
              dialogues' =
                 Resume(dialogues, d,
                        [my EXCEPT !.response = o, !.messages = <<>>])
        /\ UNCHANGED single

\* Invocation d appends its AI turn and calls input().
TwoAssistantReturn(d) ==
    LET my == dialogues[d]
    IN  /\ my.pc = "await_ai"
        /\ my.response.kind # "none"
        /\ Len(my.conversation) < TwoTurns
        /\ MayRun(d)
        /\ dialogues' =
              Resume(dialogues, d,
                     [my EXCEPT
                        !.conversation =
                           AppendTurn(@, [role |-> "AI",
                                          content |->
                                             call_gpt_api(my.response)]),
                        !.response = NoResponse,
                        !.pc = "await_input"])
        /\ UNCHANGED single

\* input() of invocation d returns: the User turn is appended and the
\* supervisor's request is posted.
TwoUserInput(d) ==
    LET my == dialogues[d]
        conv == AppendTurn(my.conversation,
                           [role |-> "User", content |-> TwoInput(d)])
    IN  /\ my.pc = "await_input"
        /\ Len(my.conversation) < TwoTurns
        /\ dialogues' =
              Resume(dialogues, d,
                     [my EXCEPT
                        !.conversation = conv,
                        !.messages =
                           SupervisorMessages(conv, my.current_step),
                        !.pc = "await_supervisor"])
        /\ UNCHANGED single

\* supervisor() of invocation d returns; the loop assigns current_step and
\* runs the next iteration up to its model call, or returns.
TwoSupervisorReturn(d) ==
    LET my == dialogues[d]
        next_step == supervisor(call_gpt_api(my.response), my.current_step,
                                my.conversation_sequence)
    IN  /\ my.pc = "await_supervisor"
        /\ my.response.kind # "none"
        /\ MayRun(d)
        /\ dialogues' =
              Resume(dialogues, d,
                     [my EXCEPT
                        !.current_step = next_step,
                        !.response = NoResponse,
                        !.messages =
                           IF next_step = None THEN <<>>
                           ELSE AssistantMessages(my.conversation,
                                                  next_step),
                        !.pc = IF next_step = None THEN "done"
                               ELSE "await_ai"])
        /\ UNCHANGED single

NextTwo ==
    \E d \in TwoDialogues :
        \/ TwoStart(d)
        \/ TwoGatewayRespond(d)
        \/ TwoAssistantReturn(d)
        \/ TwoUserInput(d)
        \/ TwoSupervisorReturn(d)

SpecTwo == InitTwo /\ [][NextTwo]_vars

\* -------------------------------------------------- the request builder
\* The two statements that build an assistant request, applied to a
\* history given from outside: a list of turns whose role is "AI", "User"
\* or "System" (a turn of side-channel context).  The loop itself appends
\* AI and User turns only.
\* Longest history given to the request builder.
RenderTurns == 3

RenderRoles == {"AI", "User", "System"}

RenderHistories ==
    SeqsUpTo({[role |-> r, content |-> TextHi] : r \in RenderRoles},
             RenderTurns)

InitRender ==
    /\ entry = "main_multi"
    /\ request = <<>>
    /\ connection = "unused"
    /\ gpt_env_missing = FALSE
    /\ current_step \in {"GREETING", "CLOSING"}
    /\ conversation_sequence = <<current_step>>
    /\ conversation \in RenderHistories
    /\ pc = "render"
    /\ messages = <<>>
    /\ response = NoResponse
    /\ saved = <<>>
    /\ result = "running"
    /\ model_calls = 0
    /\ pos = 1
    /\ table_scan = Imported
    /\ prompt_fields = [f \in DOMAIN Imported |->
                          get_prompt_from_dynamodb(Imported[f])]
    /\ dialogues = <<>>

\* messages = [system message]; messages.extend(... conversation[-5:]);
\* call_gpt_api(messages) is entered.
BuildRequest ==
    /\ pc = "render"
    /\ PostRequest(AssistantMessages(conversation, current_step))
    /\ pc' = "await_ai"
    /\ UNCHANGED <<entry, request, connection, gpt_env_missing,
                   table_scan, prompt_fields, dialogues,
                   conversation_sequence, current_step, conversation,
                   saved, result, pos>>

SpecRender == InitRender /\ [][BuildRequest]_vars

\* --------------------------------------------------------- save_to_json
\* Text of a Python str given in the model as a TLA+ string (a role).
RoleText(role) ==
    IF role = "AI" THEN <<"A", "I">> ELSE <<"U", "s", "e", "r">>

RECURSIVE Concat(_)
\* "".join(parts)
Concat(parts) ==
    IF parts = <<>> THEN <<>> ELSE Head(parts) \o Concat(Tail(parts))

\* A string written with no character escaped.
json_escape_Raw(c) == <<c>>

\* json's encoding of one character inside a string.
json_escape(c) ==
    CASE c = "\"" -> <<"\\", "\"">>
      [] c = "\\" -> <<"\\", "\\">>
      [] c = "\n" -> <<"\\", "n">>
      [] c = "\r" -> <<"\\", "r">>
      [] c = "\t" -> <<"\\", "t">>
      [] OTHER -> <<c>>

\* json's encoding of a str.
json_string(text) ==
    <<"\"">> \o Concat([i \in 1..Len(text) |-> json_escape(text[i])])
            \o <<"\"">>

\* One turn, a dict with the keys role and content, at indent 2 in a list.
json_turn(turn) ==
    <<" ", " ", "{", "\n">>
    \o <<" ", " ", " ", " ">> \o json_string(<<"r", "o", "l", "e">>)
    \o <<":", " ">> \o json_string(RoleText(turn.role)) \o <<",", "\n">>
    \o <<" ", " ", " ", " ">>
    \o json_string(<<"c", "o", "n", "t", "e", "n", "t">>)
    \o <<":", " ">> \o json_string(turn.content) \o <<"\n">>
    \o <<" ", " ", "}">>

\* The text json.dump(data, f, indent=2) writes for a list of turns.
save_to_json(data) ==
    IF data = <<>> THEN <<"[", "]">>
    ELSE <<"[", "\n">>
         \o Concat([i \in 1..Len(data) |->
                       json_turn(data[i])
                       \o (IF i < Len(data) THEN <<",", "\n">>
                                            ELSE <<"\n">>)])
         \o <<"]">>

\* ------------------------------------------------------------ json.load
\* Reading the file back: json.load of the standard library, for a list of
\* objects whose values are strings.  A parse result is [ok, value, next]:
\* whether the text was accepted, what was read and where reading stopped.
RECURSIVE SkipWhitespace(_, _)
SkipWhitespace(text, i) ==
    IF i <= Len(text) /\ text[i] \in Whitespace
    THEN SkipWhitespace(text, i + 1) ELSE i

\* The character an escape \c stands for.
json_unescape(c) ==
    CASE c = "n" -> "\n"
      [] c = "r" -> "\r"
      [] c = "t" -> "\t"
      [] OTHER -> c

RECURSIVE ScanString(_, _, _)
\* The characters of a string from i, just after its opening quote.
ScanString(text, i, read) ==
    IF i > Len(text) THEN [ok |-> FALSE, value |-> read, next |-> i]
    ELSE IF text[i] = "\"" THEN [ok |-> TRUE, value |-> read, next |-> i + 1]
    ELSE IF text[i] = "\\"
    THEN IF i + 1 > Len(text)
         THEN [ok |-> FALSE, value |-> read, next |-> i]
         ELSE ScanString(text, i + 2,
                         Append(read, json_unescape(text[i + 1])))
    ELSE IF text[i] = "\n"
    THEN [ok |-> FALSE, value |-> read, next |-> i]
    ELSE ScanString(text, i + 1, Append(read, text[i]))

\* A string starting at i.
ParseString(text, i) ==
    IF i <= Len(text) /\ text[i] = "\""
    THEN ScanString(text, i + 1, <<>>)
    ELSE [ok |-> FALSE, value |-> <<>>, next |-> i]

RECURSIVE ParseMembers(_, _, _)
\* The "key": "value" members of an object from i, up to its closing brace,
\* as pairs <<key, value>>.
ParseMembers(text, i, read) ==
    LET key == ParseString(text, SkipWhitespace(text, i))
        colon == SkipWhitespace(text, key.next)
        val == ParseString(text, SkipWhitespace(text, colon + 1))
        after == SkipWhitespace(text, val.next)
    IN  IF ~key.ok \/ colon > Len(text)
        THEN [ok |-> FALSE, value |-> read, next |-> i]
        ELSE IF text[colon] # ":" \/ ~val.ok \/ after > Len(text)
        THEN [ok |-> FALSE, value |-> read, next |-> i]
        ELSE IF text[after] = ","
        THEN ParseMembers(text, after + 1,
                          Append(read, <<key.value, val.value>>))
        ELSE [ok |-> text[after] = "}",
              value |-> Append(read, <<key.value, val.value>>),
              next |-> after + 1]

\* dict[key] of the pairs read: the last pair with that key.
Lookup(pairs, key) ==
    LET hits == {j \in 1..Len(pairs) : pairs[j][1] = key}
    IN  pairs[CHOOSE j \in hits : \A h \in hits : h <= j][2]

\* The model's form of a role read back as text.
RoleOf(text) ==
    IF text = <<"A", "I">> THEN "AI"
    ELSE IF text = <<"U", "s", "e", "r">> THEN "User"
    ELSE "other"

\* An object starting at i, read as a turn: accepted when its keys are
\* role and content.
ParseTurn(text, i) ==
    LET members == IF i <= Len(text) /\ text[i] = "{"
                   THEN ParseMembers(text, i + 1, <<>>)
                   ELSE [ok |-> FALSE, value |-> <<>>, next |-> i]
        keys == {members.value[j][1] : j \in 1..Len(members.value)}
        role_key == <<"r", "o", "l", "e">>
        content_key == <<"c", "o", "n", "t", "e", "n", "t">>
    IN  IF members.ok /\ keys = {role_key, content_key}
        THEN [ok |-> TRUE,
              value |-> [role |-> RoleOf(Lookup(members.value, role_key)),
                         content |-> Lookup(members.value, content_key)],
              next |-> members.next]
        ELSE [ok |-> FALSE,
              value |-> [role |-> "other", content |-> <<>>],
              next |-> i]

RECURSIVE ParseTurns(_, _, _)
\* The elements of a list from i, up to its closing bracket.
ParseTurns(text, i, read) ==
    LET turn == ParseTurn(text, SkipWhitespace(text, i))
        after == SkipWhitespace(text, turn.next)
    IN  IF ~turn.ok \/ after > Len(text)
        THEN [ok |-> FALSE, value |-> read, next |-> i]
        ELSE IF text[after] = ","
        THEN ParseTurns(text, after + 1, Append(read, turn.value))
        ELSE [ok |-> text[after] = "]",
              value |-> Append(read, turn.value),
              next |-> after + 1]

\* json.load of a file holding text: ok is FALSE where it raises
\* JSONDecodeError, else value is the list read.
json_load(text) ==
    LET start == SkipWhitespace(text, 1)
        first == SkipWhitespace(text, start + 1)
        list == IF start > Len(text) \/ first > Len(text)
                THEN [ok |-> FALSE, value |-> <<>>, next |-> start]
                ELSE IF text[start] # "["
                THEN [ok |-> FALSE, value |-> <<>>, next |-> start]
                ELSE IF text[first] = "]"
                THEN [ok |-> TRUE, value |-> <<>>, next |-> first + 1]
                ELSE ParseTurns(text, first, <<>>)
    IN  [ok |-> list.ok /\ SkipWhitespace(text, list.next) > Len(text),
         value |-> list.value]

\* ------------------------------------------- the user-driven variant
\* src/ai_talker_functions_multi.py: a for loop over the steps; within a
\* step, run_conversation_step repeats assistant call, AI turn, input,
\* User turn until an input holds NEXT_STEP.  There is no supervisor.
\* The variables are used as in the supervisor-driven loop; pos is the
\* place of the for loop in the sequence.
\* Longest transcript explored in the user-driven variant.
MultiTurns == 6

NEXT_STEP == <<"N", "E", "X", "T", "_", "S", "T", "E", "P">>

\* word in text
Contains(text, word) ==
    \E i \in 1..(Len(text) - Len(word) + 1) :
        SubSeq(text, i, i + Len(word) - 1) = word

\* The test made on the input as it was typed, without .upper().
multi_breaks_CaseSensitive(user_input) == Contains(user_input, NEXT_STEP)

\* "NEXT_STEP" in user_input.upper()
multi_breaks(user_input) == Contains(Upper(user_input), NEXT_STEP)

\* The string this variant's call_gpt_api returns.
multi_call_gpt_api(r) ==
    CASE r.kind = "not_configured" -> NotConfiguredText
      [] r.kind = "ok" -> <<"A", "I", ":", " ">> \o r.text
      [] r.kind = "http_error" -> StatusErrorHead \o IntToStr(r.status)
      [] r.kind = "exception" -> ExceptionErrorHead \o r.text

\* The payload's messages: the fixed system message and full_prompt, which
\* is the step's prompt, then one "role: content" line per turn of
\* conversation[-5:].
multi_messages(conv, step) ==
    << [role |-> "system", content |-> [fixed |-> "helpful AI assistant"]],
       [role |-> "user",
        content |-> [system_prompt |-> step,
                     context |->
                        [i \in 1..Len(LastN(conv, WindowSize)) |->
                            RoleText(LastN(conv, WindowSize)[i].role)
                            \o <<":", " ">>
                            \o LastN(conv, WindowSize)[i].content]]] >>

\* list(available_steps.keys())
selected_steps ==
    <<"GREETING", "NEEDS_ASSESSMENT", "INFO_PROVISION", "TRANSACTION",
      "SUPPORT", "FEEDBACK", "ACCOUNT_MANAGEMENT", "CLOSING",
      "ERROR_HANDLING", "COMMON_STATES">>

MultiRequests == SeqsUpTo(RequestIds, 2)

MultiInputs ==
    { <<"o", "k">>,
      <<"n", "e", "x", "t", "_", "s", "t", "e", "p">>,
      <<"N", "e", "x", "t", "_", "S", "t", "e", "p", "!">> }

MultiOutcomes == {Ok(TextHi), HttpError}

InitMulti ==
    /\ entry \in {"main_multi", "handle_conversation"}
    /\ request \in IF entry = "main_multi" THEN {<<>>} ELSE MultiRequests
    /\ connection = "unused"
    /\ gpt_env_missing = FALSE
    /\ conversation_sequence = <<>>
    /\ current_step = None
    /\ conversation = <<>>
    /\ pc = "start"
    /\ messages = <<>>
    /\ response = NoResponse
    /\ saved = <<>>
    /\ result = "running"
    /\ model_calls = 0
    /\ pos = 0
    /\ table_scan = Imported
    /\ prompt_fields = [f \in DOMAIN Imported |->
                          get_prompt_from_dynamodb(Imported[f])]
    /\ dialogues = <<>>

\* conversation = []; the for loop enters its first step and
\* run_conversation_step runs up to its model call.
MultiStart(steps) ==
    /\ conversation_sequence' = steps
    /\ current_step' = steps[1]
    /\ pos' = 1
    /\ conversation' = <<>>
    /\ PostRequest(multi_messages(<<>>, steps[1]))
    /\ pc' = "await_ai"
    /\ request' = <<>>
    /\ UNCHANGED <<connection, saved, result>>

\* ai_talker_functions_multi.main_multi(), up to the first model call.
multi_main_multi ==
    /\ pc = "start" /\ entry = "main_multi"
    /\ MultiStart(selected_steps)
    /\ UNCHANGED <<entry, gpt_env_missing, table_scan, prompt_fields,
                   dialogues>>

\* api_multi.handle_conversation(request), up to the first model call; with
\* no steps the for loop does nothing and the empty transcript is saved.
multi_handle_conversation ==
    /\ pc = "start" /\ entry = "handle_conversation"
    /\ IF \E i \in 1..Len(request) : request[i] \notin available_steps
       THEN EndWithout("KeyError")
       ELSE IF request = <<>>
       THEN /\ Halt(<<>>)
            /\ UNCHANGED <<request, connection, conversation_sequence,
                           current_step, conversation, pos>>
       ELSE MultiStart(request)
    /\ UNCHANGED <<entry, gpt_env_missing, table_scan, prompt_fields,
                   dialogues>>

MultiGatewayRespond == call_gpt_api_Returns(MultiOutcomes)

\* ai_response = await call_gpt_api(full_prompt); the AI turn is appended
\* and input() is called.
MultiAssistantReturn ==
    /\ pc = "await_ai"
    /\ response.kind # "none"
    /\ Len(conversation) < MultiTurns
    /\ conversation' =
          AppendTurn(conversation,
                     [role |-> "AI",
                      content |-> multi_call_gpt_api(response)])
    /\ response' = NoResponse
    /\ pc' = "await_input"
    /\ UNCHANGED <<entry, request, connection, gpt_env_missing,
                   table_scan, prompt_fields, dialogues,
                   conversation_sequence, current_step, messages, saved,
                   result, model_calls, pos>>

\* input() returns: the User turn is appended; on NEXT_STEP the step's
\* loop breaks and the for loop enters the next step or, after the last
\* one, the transcript is saved; else the step's loop goes round.
MultiUserInput ==
    /\ pc = "await_input"
    /\ Len(conversation) < MultiTurns
    /\ \E user_input \in MultiInputs :
          LET conv == AppendTurn(conversation,
                                 [role |-> "User", content |-> user_input])
          IN  /\ conversation' = conv
              /\ IF ~multi_breaks(user_input)
                 THEN /\ PostRequest(multi_messages(conv, current_step))
                      /\ pc' = "await_ai"
                      /\ UNCHANGED <<current_step, pos, saved, result>>
                 ELSE IF pos < Len(conversation_sequence)
                 THEN /\ pos' = pos + 1
                      /\ current_step' = conversation_sequence[pos + 1]
                      /\ PostRequest(
                            multi_messages(conv,
                                           conversation_sequence[pos + 1]))
                      /\ pc' = "await_ai"
                      /\ UNCHANGED <<saved, result>>
                 ELSE /\ Halt(conv)
                      /\ UNCHANGED <<current_step, pos>>
    /\ UNCHANGED <<entry, request, connection, gpt_env_missing,
                   table_scan, prompt_fields, dialogues,
                   conversation_sequence>>

NextMulti ==
    \/ multi_main_multi
    \/ multi_handle_conversation
    \/ MultiGatewayRespond
    \/ MultiAssistantReturn
    \/ MultiUserInput

SpecMulti == InitMulti /\ [][NextMulti]_vars

\* ---------------------------------------------------------- vocabulary
\* The supervisor's request has been answered and supervisor() is about to
\* read the answer.
SupervisorAnswered == pc = "await_supervisor" /\ response.kind # "none"

\* The answer after trimming whitespace and folding case.
Normalised(text) == Upper(Strip(text))

\* The model call failed: a non-200 status or a transport exception.
CallFailed == response.kind \in {"http_error", "exception"}

\* The dialogue is Halted: the loop is left and the transcript handed over.
Halted == pc = "done" /\ result = "saved"

TextExit == <<"e", "x", "i", "t">>

\* The escape-hatch inputs: the empty input and the sentinel "exit".
EscapeInput(user_input) == user_input = <<>> \/ user_input = TextExit

HasRepeats(sequence) ==
    \E i, j \in 1..Len(sequence) : i # j /\ sequence[i] = sequence[j]

\* text begins with head.
StartsWith(text, head) ==
    Len(text) >= Len(head) /\ SubSeq(text, 1, Len(head)) = head

\* "AI: I apologize, but I encountered an error": what both error strings
\* begin with.
Apology == SubSeq(ExceptionErrorHead, 1, Len(ExceptionErrorHead) - 2)

\* The field source failed: the service answered the scan with an error,
\* or the request got no answer.
FieldSourceFailed(scan) == scan.kind \in {"client_error", "transport_error"}

\* Iterations of the loop completed so far, at an iteration boundary: an
\* iteration makes two model calls (one when the loop breaks on the input),
\* and at the top of the loop the next iteration's call has been made.
CompletedIterations ==
    IF pc = "await_ai" THEN (model_calls - 1) \div 2
    ELSE (model_calls + 1) \div 2

\* Iterations of the loop started so far (each makes two model calls, the
\* first of them when it starts).
IterationsStarted == (model_calls + 1) \div 2

\* The input holds NEXT_STEP in some spelling of upper and lower case.
MentionsNextStep(user_input) ==
    \E i \in 1..(Len(user_input) - 8) :
        Lower(SubSeq(user_input, i, i + 8))
           = <<"n", "e", "x", "t", "_", "s", "t", "e", "p">>

\* ---------------------------------------------------------------- claims

\* C1: in the supervisor-driven loop, whenever the supervisor's reply is
\* neither STAY nor COMPLETE after trimming and case folding and the cursor
\* is not at the last position, the cursor moves to the step at exactly the
\* next position of the sequence, also when a step occurs more than once.
C1_AdvanceToNextPosition ==
    [][ ( /\ SupervisorAnswered
          /\ Normalised(call_gpt_api(response)) \notin {STAY, COMPLETE}
          /\ pos < Len(conversation_sequence) )
        => current_step' = conversation_sequence[pos + 1] ]_vars

\* C2: supervisor returns None, and the dialogue halts, whenever the cursor
\* is at the last position of the sequence and the reply is not STAY, also
\* when the last step occurs earlier in the sequence.
C2_LastPositionCompletes ==
    [][ ( /\ SupervisorAnswered
          /\ Normalised(call_gpt_api(response)) # STAY
          /\ pos = Len(conversation_sequence) )
        => (current_step' = None /\ pc' = "done") ]_vars

\* C3: in every dialogue loop a user input that is empty or the exit
\* sentinel halts the dialogue at once: it is the last turn, the supervisor
\* is not called for it and the transcript is handed over.
C3_EscapeInputHalts ==
    \A k \in 1..Len(conversation) :
        (conversation[k].role = "User" /\ EscapeInput(conversation[k].content))
        => (k = Len(conversation) /\ Halted)

\* C4: a step list that names a step missing from the registry makes the
\* invocation fail before any model call and before any turn; no dialogue
\* is run over the known steps that remain.
C4_UnknownStepFailsFast ==
    [][ ( /\ pc = "start"
          /\ connection \in {"unused", "steps"}
          /\ \E i \in 1..Len(request) : request[i] \notin available_steps )
        => ( /\ pc' = "done"
             /\ result' \notin {"running", "saved"}
             /\ model_calls' = 0
             /\ conversation' = <<>> ) ]_vars

\* C5: a failed model call, the assistant's or the supervisor's, never
\* moves the dialogue to Halted.
C5_FailedCallNeverHalts ==
    [][ ( /\ pc \in {"await_ai", "await_supervisor"}
          /\ CallFailed )
        => pc' # "done" ]_vars

\* C6: every failed model call, the supervisor's included, is appended to
\* the transcript as a visible error entry, and the dialogue continues.
C6_FailureBecomesTranscriptEntry ==
    [][ ( /\ pc \in {"await_ai", "await_supervisor"}
          /\ CallFailed )
        => ( /\ Len(conversation') = Len(conversation) + 1
             /\ StartsWith(conversation'[Len(conversation')].content, Apology)
             /\ pc' # "done" ) ]_vars

\* C7: when the assistant turn's model call fails with a non-200 status or
\* a transport exception, exactly one AI turn is appended, holding the
\* apology followed by the failure's own detail; nothing escapes the loop,
\* which next waits for the user's input and appends it as a User turn.
C7_AssistantFailureTurn ==
    [][ /\ ( /\ pc = "await_ai"
             /\ CallFailed )
           => ( /\ Len(conversation') = Len(conversation) + 1
                /\ SubSeq(conversation', 1, Len(conversation)) = conversation
                /\ conversation'[Len(conversation')].role = "AI"
                /\ StartsWith(conversation'[Len(conversation')].content,
                              Apology)
                /\ LastN(conversation'[Len(conversation')].content,
                         Len(response.text)) = response.text
                /\ response.kind = "http_error" =>
                      StartsWith(LastN(conversation'[Len(conversation')].content,
                                       Len(response.text) + 12),
                                 <<"5", "0", "0">>)
                /\ pc' = "await_input"
                /\ result' = "running" )
        /\ pc = "await_input"
           => ( /\ Len(conversation') = Len(conversation) + 1
                /\ SubSeq(conversation', 1, Len(conversation)) = conversation
                /\ conversation'[Len(conversation')].role = "User"
                /\ conversation'[Len(conversation')].content \in UserInputs )
      ]_vars

\* C7's case: an AI turn holding the status error, then the User turn.
C7_Witness ==
    /\ Len(conversation) >= 2
    /\ conversation[1].role = "AI"
    /\ StartsWith(conversation[1].content, StatusErrorHead)
    /\ conversation[2].role = "User"

C9_CompleteHalts ==
    [][ /\ ( /\ SupervisorAnswered
             /\ Normalised(call_gpt_api(response)) = COMPLETE )
           => ( /\ Halted'
                /\ current_step' = None
                /\ conversation' = conversation
                /\ saved' = conversation
                /\ model_calls' = model_calls
                /\ messages' = <<>> )
        /\ pc # "done"
      ]_vars

\* C9's case: halted after the first user turn, on the first of two steps,
\* by the supervisor and not by the loop's own exit test.
C9_Witness ==
    /\ Halted
    /\ Len(saved) = 2
    /\ Len(conversation_sequence) = 2
    /\ pos = 1
    /\ ~IsExit(conversation[2].content)

\* C10: for every step sequence of length at least 1, an exit input given
\* right after the first assistant turn halts the loop after one iteration
\* with a transcript of exactly 2 turns (one AI turn, then the User turn).
C10_ImmediateExitTwoTurns ==
    ( /\ Len(conversation) >= 2
      /\ conversation[2].content = TextExit )
    => ( /\ Len(conversation) = 2
         /\ conversation[1].role = "AI"
         /\ conversation[2].role = "User"
         /\ Halted
         /\ saved = conversation
         /\ model_calls = 1 )

\* C11: the transcript is append-only: no step of a dialogue, a failed model
\* call's included, shortens it, and the transcript before a step is a
\* prefix of the transcript after it (no turn is removed, rewritten or
\* reordered).
C11_TranscriptAppendOnly ==
    [][ /\ Len(conversation') >= Len(conversation)
        /\ \A k \in 1..Len(conversation) : conversation'[k] = conversation[k]
      ]_vars

\* C11's case: a transcript of four turns whose third turn is the entry of
\* a failed assistant call, appended after the first exchange.
C11_Witness ==
    /\ Len(conversation) = 4
    /\ conversation[1].content = TextHi
    /\ conversation[3].role = "AI"
    /\ StartsWith(conversation[3].content, ExceptionErrorHead)
    /\ conversation[4].role = "User"

\* C16: when the dialogue reaches Halted, by COMPLETE, by advancing past the
\* last step or by an exit input, the transcript handed to the caller and
\* to save_to_json is the whole transcript, the turn appended by the halting
\* step included, and the halting step makes no model call; once Halted no
\* step follows: no turn is appended and no model call is made.
C16_HaltedHandsOverAll ==
    [][ /\ Halted' => ( /\ saved' = conversation'
                        /\ Len(conversation') >= Len(conversation)
                        /\ SubSeq(conversation', 1, Len(conversation))
                              = conversation
                        /\ model_calls' = model_calls
                        /\ messages' = <<>>
                        /\ response'.kind = "none" )
        /\ ~Halted
      ]_vars

\* C16's case: chat_interface halted by an exit input in its second
\* iteration, after one advance: the saved transcript ends with that input.
C16_Witness ==
    /\ Halted
    /\ entry = "chat_interface"
    /\ pos = 2
    /\ Len(saved) = 4
    /\ IsExit(saved[4].content)

\* C18: a model call is entered only when no call is in progress, and an
\* iteration runs in a fixed order: the assistant's call, the AI turn, the
\* user's input, the User turn, the supervisor's call, the decision; the
\* next iteration's call is made with the decision already applied.
C18_OneCallFixedOrder ==
    [][ /\ model_calls' # model_calls
           => ( /\ model_calls' = model_calls + 1
                /\ messages = <<>>
                /\ messages' # <<>>
                /\ response'.kind = "none" )
        /\ messages # <<>> => response.kind = "none"
        /\ (pc = "await_ai" /\ pc' # pc)
           => ( /\ response.kind # "none"
                /\ pc' = "await_input"
                /\ Len(conversation') = Len(conversation) + 1
                /\ conversation'[Len(conversation')].role = "AI"
                /\ model_calls' = model_calls )
        /\ (pc = "await_input" /\ pc' \notin {pc, "done"})
           => ( /\ pc' = "await_supervisor"
                /\ Len(conversation') = Len(conversation) + 1
                /\ conversation'[Len(conversation')].role = "User"
                /\ model_calls' = model_calls + 1
                /\ messages'[1].content.supervisor_for = current_step )
        /\ (pc = "await_supervisor" /\ pc' # pc)
           => ( /\ response.kind # "none"
                /\ conversation' = conversation
                /\ current_step' =
                      supervisor(call_gpt_api(response), current_step,
                                 conversation_sequence)
                /\ pc' \in {"await_ai", "done"}
                /\ pc' = "await_ai"
                      => ( /\ model_calls' = model_calls + 1
                           /\ messages'[1].content
                                 = step_prompts(current_step') ) )
        /\ (pc' = "await_ai" /\ pc # pc')
           => pc \in {"start", "await_supervisor"}
      ]_vars

\* C18's case: the second iteration's assistant call is in progress as the
\* third call of the dialogue, after one full iteration.
C18_Witness ==
    /\ pc = "await_ai"
    /\ messages # <<>>
    /\ model_calls = 3
    /\ Len(conversation) = 2

\* C20: after every user turn on which the loop does not break (every turn
\* that is not an exit input), the supervisor is called exactly once before
\* the next assistant call, with a transcript tail whose last turn is that
\* user turn; the cursor of the next assistant call is what supervisor()
\* makes of that call's own reply.
C20_SupervisorAfterEachUserTurn ==
    [][ /\ pc = "await_input"
           => LET user_turn == conversation'[Len(conversation')]
              IN  /\ Len(conversation') = Len(conversation) + 1
                  /\ user_turn.role = "User"
                  /\ IF BreaksOn(entry, user_turn.content)
                     THEN pc' = "done" /\ model_calls' = model_calls
                     ELSE /\ pc' = "await_supervisor"
                          /\ model_calls' = model_calls + 1
                          /\ Len(messages') = 1
                          /\ LET tail == messages'[1].content.history
                             IN  /\ tail # <<>>
                                 /\ tail[Len(tail)] = user_turn
                                 /\ \A i \in 1..Len(tail) :
                                       tail[i] = conversation'[
                                          Len(conversation') - Len(tail) + i]
        /\ pc = "await_supervisor"
           => \/ model_calls' = model_calls
              \/ /\ model_calls' = model_calls + 1
                 /\ pc' = "await_ai"
                 /\ response.kind # "none"
                 /\ current_step' =
                       supervisor(call_gpt_api(response), current_step,
                                  conversation_sequence)
                 /\ messages'[1].content = step_prompts(current_step')
        /\ (pc' = "await_ai" /\ model_calls' # model_calls
            /\ Len(conversation) > 0)
           => pc = "await_supervisor"
      ]_vars

\* C20's case: the supervisor's call for the second user turn is in
\* progress, that turn being an ordinary input.
C20_Witness ==
    /\ pc = "await_supervisor"
    /\ messages # <<>>
    /\ Len(conversation) = 4
    /\ conversation[4].content = <<"h", "i">>
    /\ messages[1].content.history[4] = conversation[4]

\* C12: the history of a model request, the assistant's or the
\* supervisor's, is exactly the most recent min(5, len) turns of the
\* transcript the request was built from, oldest first; while the request
\* is in progress the transcript is that same transcript, so no later turn
\* is in it.
C12_WindowIsMostRecentTurns ==
    messages # <<>> =>
        LET n == Len(conversation)
            k == IF n < 5 THEN n ELSE 5
        IN  IF pc = "await_ai"
            THEN /\ Len(messages) = k + 1
                 /\ \A i \in 1..k :
                       /\ messages[i + 1].content
                             = conversation[n - k + i].content
                       /\ messages[i + 1].role
                             = IF conversation[n - k + i].role = "AI"
                               THEN "assistant" ELSE "user"
            ELSE /\ Len(messages[1].content.history) = k
                 /\ \A i \in 1..k :
                       messages[1].content.history[i]
                          = conversation[n - k + i]

\* C12's case: the assistant's request of the fourth iteration, built from
\* a transcript of six turns: its history starts at the second turn.
C12_Witness ==
    /\ pc = "await_ai"
    /\ messages # <<>>
    /\ Len(conversation) = 6
    /\ messages[2].role = "user"
    /\ messages[2].content = conversation[2].content
    /\ messages[6].content = conversation[6].content

\* C13: however long the transcript is, an assistant request carries at
\* most 6 messages, one system message and at most 5 history turns, and a
\* supervisor prompt embeds at most 5 turns.
C13_RequestSizeBounded ==
    messages # <<>> =>
        IF pc = "await_ai"
        THEN /\ Len(messages) <= 6
             /\ messages[1].role = "system"
             /\ \A i \in 2..Len(messages) :
                   messages[i].role \in {"assistant", "user"}
        ELSE /\ Len(messages) = 1
             /\ Len(messages[1].content.history) <= 5

\* C13's case: the supervisor's prompt built from a transcript of six turns
\* embeds five of them.
C13_Witness ==
    /\ pc = "await_supervisor"
    /\ messages # <<>>
    /\ Len(conversation) = 6
    /\ Len(messages[1].content.history) = 5

\* C17: the text save_to_json writes for the transcript it is given loads
\* back, with json.load, as the identical list: as many turns, in the same
\* order, each with its role and its content.
C17_SaveLoadRoundTrip ==
    Halted =>
        LET loaded == json_load(save_to_json(saved))
        IN  /\ loaded.ok
            /\ Len(loaded.value) = Len(saved)
            /\ \A k \in 1..Len(saved) :
                  /\ loaded.value[k].role = saved[k].role
                  /\ loaded.value[k].content = saved[k].content

\* C17's case: a saved transcript whose second turn holds a quote, a
\* backslash and a newline, followed by further turns.
C17_Witness ==
    /\ Halted
    /\ Len(saved) = 4
    /\ saved[2].content = <<"\"", "\\", "\n">>
    /\ Len(save_to_json(saved)) > 100

\* C14: when the field source returned None for a step's field, the
\* template rendered for that step, as sent in the assistant's request, has
\* nothing in the place of its placeholder.
C14_NoneFieldRendersEmpty ==
    ( /\ pc = "await_ai"
      /\ messages # <<>>
      /\ prompt_fields[current_step].is_none )
    => messages[1].content.inserted = <<>>

\* C15: a failure of the field source, of the service or of the transport,
\* never prevents a dialogue: the import goes on with the failed fields
\* None, and chat_interface goes on when its own fetch failed.
C15_FieldSourceFailureNeverPrevents ==
    [][ /\ ( /\ pc = "import"
             /\ \E f \in DOMAIN table_scan :
                   FieldSourceFailed(table_scan[f]) )
           => ( /\ pc' = "start"
                /\ result' = "running"
                /\ \A f \in DOMAIN table_scan :
                      FieldSourceFailed(table_scan[f])
                      => prompt_fields'[f].is_none )
        /\ ( /\ pc = "start"
             /\ entry = "chat_interface"
             /\ connection \in {"client_error", "transport_error"} )
           => pc' # "done"
      ]_vars

\* C19: two dialogues run at once share no mutable state: every step
\* changes the locals of one invocation only; every turn of a transcript
\* was appended by its own invocation (its text ends in the invocation's
\* digit); and an invocation's cursor changes only when its own
\* supervisor call has been answered, to what supervisor() makes of that
\* answer, or when it starts.
C19_DialoguesShareNothing ==
    [][ /\ \E d \in TwoDialogues :
              \A e \in TwoDialogues \ {d} : dialogues'[e] = dialogues[e]
        /\ \A d \in TwoDialogues :
              LET my == dialogues[d]
                  mine == dialogues'[d]
              IN  /\ \A k \in 1..Len(mine.conversation) :
                        LET text == mine.conversation[k].content
                        IN  text[Len(text)] = DigitChars[d + 1]
                  /\ mine.current_step # my.current_step
                     => \/ /\ my.pc = "start"
                           /\ mine.current_step = my.conversation_sequence[1]
                        \/ /\ my.pc = "await_supervisor"
                           /\ my.response.kind # "none"
                           /\ mine.current_step =
                                 supervisor(call_gpt_api(my.response),
                                            my.current_step,
                                            my.conversation_sequence)
      ]_vars

\* C19's case: both dialogues are under way at different places: the first
\* has advanced to its second step and holds four turns while the second,
\* still on its first step, waits for its supervisor with two turns.
C19_Witness ==
    /\ Len(dialogues[1].conversation) = 4
    /\ dialogues[1].current_step = "CLOSING"
    /\ dialogues[1].pc = "await_supervisor"
    /\ Len(dialogues[2].conversation) = 2
    /\ dialogues[2].current_step = "GREETING"
    /\ dialogues[2].pc = "await_supervisor"
    /\ dialogues[2].messages # <<>>

\* C22: a dialogue over a non-empty sequence of resolved steps starts
\* running at the first of them with an empty transcript: its first
\* request is the single system message of that step's template, with no
\* history message.
C22_StartsAtFirstStep ==
    [][ (pc = "start" /\ pc' # "done")
        => ( /\ pc' = "await_ai"
             /\ conversation_sequence' # <<>>
             /\ current_step' = conversation_sequence'[1]
             /\ conversation' = <<>>
             /\ model_calls' = 1
             /\ messages' =
                   << [role |-> "system",
                       content |-> step_prompts(conversation_sequence'[1])] >>
             /\ result' = "running" )
      ]_vars

\* C22's case: the first request of a dialogue over three steps, the first
\* and the last of which differ, is in progress.
C22_Witness ==
    /\ pc = "await_ai"
    /\ model_calls = 1
    /\ messages # <<>>
    /\ Len(conversation_sequence) = 3
    /\ conversation_sequence[1] # conversation_sequence[3]

\* C23: at every iteration boundary, the top of the loop and the point
\* where the loop is left, the transcript has twice as many turns as
\* iterations were completed, and its turns alternate AI, User starting
\* with AI; failed model calls and empty inputs do not change this.
C23_BoundaryTranscriptWellFormed ==
    (pc = "await_ai" \/ Halted)
    => ( /\ Len(conversation) = 2 * CompletedIterations
         /\ \A k \in 1..Len(conversation) :
               conversation[k].role = IF k % 2 = 1 THEN "AI" ELSE "User" )

\* C23's case: the top of the third iteration, after an iteration whose
\* assistant call failed with a status and whose user input was empty.
C23_Witness ==
    /\ pc = "await_ai"
    /\ model_calls = 5
    /\ Len(conversation) = 4
    /\ StartsWith(conversation[3].content, StatusErrorHead)
    /\ conversation[4].content = <<>>

\* C24: the supervisor's step leaves the transcript as it is, and no other
\* step changes the cursor: the cursor changes only when the loop starts
\* (it is set to the first step) and when a supervisor decision is applied.
C24_FrameOfCursorAndTranscript ==
    [][ /\ pc = "await_supervisor" => conversation' = conversation
        /\ current_step' # current_step
           => (pc = "start" \/ SupervisorAnswered)
        /\ pc \in {"await_ai", "await_input"}
           => ( /\ current_step' = current_step
                /\ conversation_sequence' = conversation_sequence
                /\ pos' = pos )
      ]_vars

\* C24's case: a supervisor decision has moved the cursor to the second
\* step while the transcript still holds the two turns it was given.
C24_Witness ==
    /\ pc = "await_ai"
    /\ pos = 2
    /\ Len(conversation_sequence) = 2
    /\ current_step = conversation_sequence[2]
    /\ current_step # conversation_sequence[1]
    /\ Len(conversation) = 2
    /\ model_calls = 3

\* C25: the cursor never moves back in the sequence: when a supervisor
\* decision is applied at position pos, the dialogue halts or goes on at a
\* step found at position pos or later, also when a step id occurs more
\* than once; no earlier position is entered again.
C25_CursorNeverMovesBack ==
    [][ (SupervisorAnswered /\ pos <= Len(conversation_sequence))
        => \/ Halted'
           \/ \E j \in pos..Len(conversation_sequence) :
                 current_step' = conversation_sequence[j]
      ]_vars

\* C26: while the supervisor has never replied STAY (every decision so far
\* was an advance), a dialogue over a sequence of length L has started at
\* most L iterations, repeated step ids allowed.
C26_HaltsWithinLIterations ==
    ( /\ pc \in {"await_ai", "await_input", "await_supervisor"}
      /\ pos = IterationsStarted )
    => IterationsStarted <= Len(conversation_sequence)

\* C27: an invocation with an empty step sequence, or with one in which no
\* step is valid, ends with a reported error in every entry point: no
\* model call, no turn, and no exception that escapes.
C27_EmptySequenceReportsError ==
    [][ (pc = "start" /\ KnownSteps(request) = <<>>)
        => ( /\ pc' = "done"
             /\ result' = "reported_error"
             /\ model_calls' = 0
             /\ conversation' = <<>> )
      ]_vars

C28_NextStepLeavesStep ==
    [][ /\ pc = "await_input"
           => LET user_turn == conversation'[Len(conversation')]
                  leaves == pos' # pos \/ pc' = "done"
              IN  /\ Len(conversation') = Len(conversation) + 1
                  /\ user_turn.role = "User"
                  /\ conversation[Len(conversation)].role = "AI"
                  /\ leaves <=> MentionsNextStep(user_turn.content)
                  /\ pos' \in {pos, pos + 1}
                  /\ pos' <= Len(conversation_sequence)
                  /\ pc' = "done" => pos = Len(conversation_sequence)
                  /\ pc' # "done"
                     => ( /\ current_step' = conversation_sequence[pos']
                          /\ pc' = "await_ai"
                          /\ messages'[2].content.system_prompt
                                = current_step' )
        /\ pc \in {"await_ai", "done"}
           => (pos' = pos /\ current_step' = current_step)
        /\ Halted'
           => ( /\ saved' = conversation'
                /\ Len(saved') % 2 = 0
                /\ Len(saved') >= 2 * Len(conversation_sequence')
                /\ Cardinality({k \in 1..Len(saved') :
                                  /\ saved'[k].role = "User"
                                  /\ MentionsNextStep(saved'[k].content)})
                      = Len(conversation_sequence') )
      ]_vars

\* C28's case: a dialogue over two steps has ended after three exchanges:
\* the first step took two, its first input not holding NEXT_STEP, and
\* was left by an input in lower case.
C28_Witness ==
    /\ Halted
    /\ Len(conversation_sequence) = 2
    /\ Len(saved) = 6
    /\ ~MentionsNextStep(saved[2].content)
    /\ saved[4].content = <<"n", "e", "x", "t", "_", "s", "t", "e", "p">>
    /\ StartsWith(saved[1].content, <<"A", "I", ":", " ", "H", "i">>)

====
